---- MODULE Spec2Model ----
(***************************************************************************)
(* Model of the Bible API command line client, src/client/client.py.       *)
(*                                                                         *)
(* One run of main(argv): parse_args, strip the server URL, build the      *)
(* request URL for the command, one requests.get, the status check and     *)
(* the JSON decoding of request_json, and the final print.                 *)
(*                                                                         *)
(* Strings are sequences of one-character strings, so that str.replace,    *)
(* str.rstrip and the f-string concatenations are computed character by    *)
(* character.  An argv token is a record [t, v]: t names an option flag or *)
(* a command keyword, or is "val" for a free word whose text is v.         *)
(***************************************************************************)
EXTENDS Integers, Sequences, FiniteSets, TLC

VARIABLES argv, pc, args, base, url, requested, response, data,
          stdout, stderr, exitCode, retval

vars == <<argv, pc, args, base, url, requested, response, data,
          stdout, stderr, exitCode, retval>>

----------------------------------------------------------------------------
(* Bounds of the input space *)

MaxRefLen == 2
MaxServerLen == 3

----------------------------------------------------------------------------
(* Strings *)

\* Python's None, distinct from every string (no character is "None")
None == <<"None">>

\* Python truthiness of an Optional[str]: None and "" are falsy
Truthy(x) == x # None /\ x # <<>>

\* All strings over alphabet of length at most n
StringsUpTo(alphabet, n) == UNION {[1..k -> alphabet] : k \in 0..n}

SLASH == <<"/">>
WEB == <<"w", "e", "b">>
DATA == <<"/", "d", "a", "t", "a">>
DATA_WEB_RANDOM == <<"/", "d", "a", "t", "a", "/", "w", "e", "b", "/", "r", "a", "n", "d", "o", "m">>
Q_TRANSLATION == <<"?", "t", "r", "a", "n", "s", "l", "a", "t", "i", "o", "n", "=">>
DEFAULT_SERVER_URL == <<"h", "t", "t", "p", ":", "/", "/", "a", "p", "i", ":", "4", "5", "6", "7">>

\* str.replace(" ", "+") as changed by a bug: only the first space is replaced
RECURSIVE ReplaceFirstSpace(_)
ReplaceFirstSpace(s) ==
    IF s = <<>> THEN <<>>
    ELSE IF Head(s) = " " THEN <<"+">> \o Tail(s)
    ELSE <<Head(s)>> \o ReplaceFirstSpace(Tail(s))

\* args.reference.replace(" ", "+")
RECURSIVE ReplaceSpaces(_)
ReplaceSpaces(s) ==
    IF s = <<>> THEN <<>>
    ELSE <<IF Head(s) = " " THEN "+" ELSE Head(s)>> \o ReplaceSpaces(Tail(s))

\* str.rstrip("/") as changed by a bug: at most one trailing slash is removed
RstripOne(s) ==
    IF s # <<>> /\ s[Len(s)] = "/" THEN SubSeq(s, 1, Len(s) - 1) ELSE s

\* args.server.rstrip("/")
RECURSIVE Rstrip(_)
Rstrip(s) ==
    IF s # <<>> /\ s[Len(s)] = "/" THEN Rstrip(SubSeq(s, 1, Len(s) - 1)) ELSE s

\* str(n) for n >= 0, as in the f-string "{response.status_code}"
DigitChar(d) == <<"0", "1", "2", "3", "4", "5", "6", "7", "8", "9">>[d + 1]
RECURSIVE Digits(_)
Digits(n) == IF n < 10 THEN <<DigitChar(n)>> ELSE Digits(n \div 10) \o <<DigitChar(n % 10)>>

----------------------------------------------------------------------------
(* The command line: tokens, and the parser built by build_parser *)

Flag(name) == [t |-> name, v |-> <<>>]
Keyword(name) == [t |-> name, v |-> <<>>]
Word(text) == [t |-> "val", v |-> text]

Flags == {"--server", "--translation", "-t", "--books", "--testament"}
Commands == {"verse", "translations", "books", "chapters", "random"}

IsFlag(tok) == tok.t \in Flags

\* The text of a token that is not an option flag
Text(tok) ==
    CASE tok.t = "verse" -> <<"v", "e", "r", "s", "e">>
      [] tok.t = "translations" -> <<"t", "r", "a", "n", "s", "l", "a", "t", "i", "o", "n", "s">>
      [] tok.t = "books" -> <<"b", "o", "o", "k", "s">>
      [] tok.t = "chapters" -> <<"c", "h", "a", "p", "t", "e", "r", "s">>
      [] tok.t = "random" -> <<"r", "a", "n", "d", "o", "m">>
      [] OTHER -> tok.v

\* The attribute an option flag of a sub-command stores into
Dest(flag) ==
    CASE flag \in {"--translation", "-t"} -> "translation"
      [] flag = "--books" -> "books"
      [] flag = "--testament" -> "testament"
      [] OTHER -> "server"

\* The option flags each sub-parser declares
Options(cmd) ==
    CASE cmd \in {"verse", "books", "chapters"} -> {"--translation", "-t"}
      [] cmd = "random" -> {"--books", "--testament"}
      [] OTHER -> {}

\* The positional argument each sub-parser declares, "none" when it has none
Positional(cmd) ==
    CASE cmd = "verse" -> "reference"
      [] cmd = "chapters" -> "book"
      [] OTHER -> "none"

\* choices=["OT", "NT"]
TestamentChoices == {<<"O", "T">>, <<"N", "T">>}

\* The namespace before any argument is stored: attributes not set are None
EmptyNs ==
    [server |-> None, command |-> "none", reference |-> None, translation |-> None,
     book |-> None, books |-> None, testament |-> None]

\* The --translation default of each sub-parser: "web" for books and chapters
DefaultTranslation(cmd) == IF cmd \in {"books", "chapters"} THEN WEB ELSE None

\* The namespace a sub-parser starts from
InitialNs(server, cmd) ==
    [EmptyNs EXCEPT !.server = server, !.command = cmd,
                    !.translation = DefaultTranslation(cmd)]

UsageError == [ok |-> FALSE, ns |-> EmptyNs]
Parsed(ns) == [ok |-> TRUE, ns |-> ns]

\* The mutually exclusive group, as changed by a bug: no conflict is ever seen
ConflictsNever(ns, dest) == FALSE

\* add_mutually_exclusive_group of random: storing dest conflicts when the
\* other member of the group was already given (its value is not its default)
Conflicts(ns, dest) ==
    \/ dest = "books" /\ ns.testament # None
    \/ dest = "testament" /\ ns.books # None

\* A sub-parser over the tokens after the command
RECURSIVE ParseSub(_, _)
ParseSub(toks, ns) ==
    IF toks = <<>>
    THEN IF Positional(ns.command) # "none" /\ ns[Positional(ns.command)] = None
         THEN UsageError          \* the following arguments are required
         ELSE Parsed(ns)
    ELSE LET h == Head(toks) IN
         IF IsFlag(h)
         THEN IF h.t \notin Options(ns.command) THEN UsageError   \* unrecognized arguments
              ELSE IF Len(toks) < 2 \/ IsFlag(toks[2]) THEN UsageError   \* expected one argument
              ELSE LET dest == Dest(h.t)
                       val == Text(toks[2])
                   IN  IF dest = "testament" /\ val \notin TestamentChoices
                       THEN UsageError     \* invalid choice
                       ELSE IF Conflicts(ns, dest)
                       THEN UsageError     \* not allowed with argument
                       ELSE ParseSub(SubSeq(toks, 3, Len(toks)), [ns EXCEPT ![dest] = val])
         ELSE IF Positional(ns.command) = "none" \/ ns[Positional(ns.command)] # None
              THEN UsageError     \* unrecognized arguments
              ELSE ParseSub(Tail(toks), [ns EXCEPT ![Positional(ns.command)] = Text(h)])

\* parser.parse_args(argv): the global --server option, then the required
\* command, then the command's sub-parser over what follows
RECURSIVE ParseFrom(_, _)
ParseFrom(toks, server) ==
    IF toks = <<>> THEN UsageError     \* the command is required
    ELSE LET h == Head(toks) IN
         IF h.t = "--server"
         THEN IF Len(toks) < 2 \/ IsFlag(toks[2]) THEN UsageError
              ELSE ParseFrom(SubSeq(toks, 3, Len(toks)), Text(toks[2]))
         ELSE IF IsFlag(h) THEN UsageError
         ELSE IF h.t \notin Commands THEN UsageError      \* invalid choice
         ELSE ParseSub(Tail(toks), InitialNs(server, h.t))

ParseArgs(toks) == ParseFrom(toks, DEFAULT_SERVER_URL)

----------------------------------------------------------------------------
(* The command-to-URL mapping of main *)

\* The verse branch, as changed by a bug: a default translation is substituted
VerseURLDefaultWeb(b, reference, translation) ==
    b \o SLASH \o ReplaceSpaces(reference)
      \o Q_TRANSLATION \o (IF Truthy(translation) THEN translation ELSE WEB)

\* verse: f"{base}/{ref}", then "?translation=..." if args.translation
VerseURL(b, reference, translation) ==
    b \o SLASH \o ReplaceSpaces(reference)
      \o (IF Truthy(translation) THEN Q_TRANSLATION \o translation ELSE <<>>)

\* translations: f"{base}/data"
TranslationsURL(b) == b \o DATA

\* The books branch, as changed by a bug: the translation is always "web"
BooksURLWeb(b, translation) == b \o DATA \o SLASH \o WEB

\* books: f"{base}/data/{args.translation}"
BooksURL(b, translation) == b \o DATA \o SLASH \o translation

\* chapters: f"{base}/data/{args.translation}/{args.book}"
ChaptersURL(b, translation, book) == b \o DATA \o SLASH \o translation \o SLASH \o book

\* The random branch, as changed by a bug: the "/" is appended unconditionally
RandomURLSlash(b, books, testament) ==
    b \o DATA_WEB_RANDOM \o SLASH
      \o (IF Truthy(books) THEN books
          ELSE IF Truthy(testament) THEN testament
          ELSE <<>>)

\* random: f"{base}/data/web/random", then "/{books}" if args.books,
\* elif args.testament "/{testament}"
RandomURL(b, books, testament) ==
    b \o DATA_WEB_RANDOM
      \o (IF Truthy(books) THEN SLASH \o books
          ELSE IF Truthy(testament) THEN SLASH \o testament
          ELSE <<>>)

----------------------------------------------------------------------------
(* The upstream response: status, body, response.ok, response.json() *)

\* Status codes a response returned by requests.get may carry (a 304 is
\* never followed as a redirect)
StatusCodes == {200, 201, 304, 404, 500}

\* Response bodies: "[]", "[7,1]" and the undecodable "[7"
Bodies == {<<"[", "]">>, <<"[", "7", ",", "1", "]">>, <<"[", "7">>}

\* response.ok as changed by a bug: only server errors are not ok
OkBelow500(status) == status < 500

\* response.ok of the requests library: False exactly when raise_for_status
\* would raise, that is for 400 <= status_code < 600
Ok(status) == ~(400 <= status /\ status < 600)

JsonDigits == {"0", "1", "2", "3", "4", "5", "6", "7", "8", "9"}
DigitValue(c) == CHOOSE d \in 0..9 : DigitChar(d) = c

\* Whether response.json() decodes the body: an array of one-digit numbers
Decodable(body) ==
    /\ Len(body) >= 2
    /\ body[1] = "[" /\ body[Len(body)] = "]"
    /\ \/ Len(body) = 2
       \/ /\ Len(body) % 2 = 1
          /\ \A i \in 2..(Len(body) - 1) :
                IF i % 2 = 0 THEN body[i] \in JsonDigits ELSE body[i] = ","

\* response.json(): the decoded value, a sequence of numbers
Decode(body) ==
    [k \in 1..((Len(body) - 1) \div 2) |-> DigitValue(body[2 * k])]

\* json.dumps(data, indent=2): "[]" for the empty list, else one item per
\* line, indented by two spaces and separated by ",\n"
RECURSIVE DumpItems(_)
DumpItems(items) ==
    IF items = <<>> THEN <<>>
    ELSE <<" ", " ">> \o Digits(Head(items))
         \o (IF Len(items) > 1 THEN <<",">> ELSE <<>>) \o <<"\n">>
         \o DumpItems(Tail(items))

Dumps(value) ==
    IF value = <<>> THEN <<"[", "]">>
    ELSE <<"[", "\n">> \o DumpItems(value) \o <<"]">>

\* What print() writes: the text and a newline
PrintLine(text) == text \o <<"\n">>

\* The messages on the error stream
USAGE_MESSAGE == <<"u", "s", "a", "g", "e", ":">>
TRACEBACK == <<"T", "r", "a", "c", "e", "b", "a", "c", "k">>
ERROR_HTTP == <<"E", "r", "r", "o", "r", ":", " ", "H", "T", "T", "P", " ">>
HttpErrorMessage(status) == PrintLine(ERROR_HTTP \o Digits(status))

\* Exit status of parser.error, as changed by a bug: 1 instead of 2
UsageExitOne == <<1>>

\* Exit status of parser.error (argparse exits with status 2)
UsageExit == <<2>>

\* sys.exit(1) of request_json; also the status of an uncaught exception
ErrorExit == <<1>>

\* main returned normally
SuccessExit == <<0>>

----------------------------------------------------------------------------
(* The command lines the model is run on *)

RefChars == {" ", "\t", "#", "J"}
ServerChars == {"h", "/"}

References == StringsUpTo(RefChars, MaxRefLen)
Servers == StringsUpTo(ServerChars, MaxServerLen)
TranslationIds == {<<>>, <<"k", "j", "v">>}
BookIds == {<<"J", "H", "N">>}
BookLists == {<<>>, <<"J", "H", "N", ",", "M", "A", "T">>}
TestamentWords == TestamentChoices \cup {<<"X", "X">>}

GlobalParts == {<<>>} \cup {<<Flag("--server"), Word(s)>> : s \in Servers}

VerseParts ==
    {<<Keyword("verse")>>}
    \cup {<<Keyword("verse"), Word(r)>> : r \in References}
    \cup {<<Keyword("verse"), Word(r), Flag("-t"), Word(t)>> :
             r \in References, t \in TranslationIds}
    \cup {<<Keyword("verse"), Flag("--translation"), Word(t), Word(r)>> :
             r \in References, t \in TranslationIds}

DataParts ==
    {<<Keyword("translations")>>, <<Keyword("books")>>, <<Keyword("chapters")>>}
    \cup {<<Keyword("books"), Flag("-t"), Word(t)>> : t \in TranslationIds}
    \cup {<<Keyword("chapters"), Word(b)>> : b \in BookIds}
    \cup {<<Keyword("chapters"), Word(b), Flag("--translation"), Word(t)>> :
             b \in BookIds, t \in TranslationIds}

RandomParts ==
    {<<Keyword("random")>>}
    \cup {<<Keyword("random"), Flag("--books"), Word(l)>> : l \in BookLists}
    \cup {<<Keyword("random"), Flag("--testament"), Word(x)>> : x \in TestamentWords}
    \cup {<<Keyword("random"), Flag("--books"), Word(l), Flag("--testament"), Word(x)>> :
             l \in BookLists, x \in TestamentWords}
    \cup {<<Keyword("random"), Flag("--testament"), Word(x), Flag("--books"), Word(l)>> :
             l \in BookLists, x \in TestamentWords}

\* No command, and words that are not a command name
NoCommandParts == {<<>>, <<Word(<<"J">>)>>, <<Word(<<"J">>), Word(<<"J">>)>>}

CommandParts == VerseParts \cup DataParts \cup RandomParts \cup NoCommandParts

ArgvInputs == {g \o c : g \in GlobalParts, c \in CommandParts}

----------------------------------------------------------------------------
(* The run of main *)

Init ==
    /\ argv \in ArgvInputs
    /\ pc = "start"
    /\ args = EmptyNs
    /\ base = None
    /\ url = None
    /\ requested = <<>>
    /\ response = <<>>
    /\ data = None
    /\ stdout = <<>>
    /\ stderr = <<>>
    /\ exitCode = <<>>
    /\ retval = None

\* parser.error(...): the usage message on the error stream, then exit
ParserError ==
    /\ stderr' = Append(stderr, USAGE_MESSAGE)
    /\ exitCode' = UsageExit
    /\ pc' = "exited"

\* An exception nothing catches: the traceback on the error stream, exit 1
Uncaught ==
    /\ stderr' = Append(stderr, TRACEBACK)
    /\ exitCode' = ErrorExit
    /\ pc' = "exited"

\* args = parser.parse_args(argv); base = args.server.rstrip("/")
ParseStep ==
    /\ pc = "start"
    /\ LET r == ParseArgs(argv) IN
         IF r.ok
         THEN /\ args' = r.ns
              /\ base' = Rstrip(r.ns.server)
              /\ pc' = "dispatch"
              /\ UNCHANGED <<stderr, exitCode>>
         ELSE /\ ParserError
              /\ UNCHANGED <<args, base>>
    /\ UNCHANGED <<argv, url, requested, response, data, stdout, retval>>

\* The if/elif chain on args.command, up to the call of request_json
Dispatch ==
    /\ pc = "dispatch"
    /\ IF args.command \in Commands
       THEN /\ url' = CASE args.command = "verse" ->
                             VerseURL(base, args.reference, args.translation)
                        [] args.command = "translations" -> TranslationsURL(base)
                        [] args.command = "books" -> BooksURL(base, args.translation)
                        [] args.command = "chapters" ->
                             ChaptersURL(base, args.translation, args.book)
                        [] args.command = "random" ->
                             RandomURL(base, args.books, args.testament)
            /\ pc' = "request"
            /\ UNCHANGED <<stderr, exitCode>>
       ELSE /\ ParserError          \* parser.error("Unknown command")
            /\ UNCHANGED url
    /\ UNCHANGED <<argv, args, base, requested, response, data, stdout, retval>>

\* response = requests.get(url): a response, or a transport failure raised
Get ==
    /\ pc = "request"
    /\ requested' = Append(requested, url)
    /\ \/ /\ \E s \in StatusCodes, b \in Bodies :
               response' = <<[status |-> s, body |-> b]>>
          /\ pc' = "check"
          /\ UNCHANGED <<stderr, exitCode>>
       \/ /\ Uncaught
          /\ UNCHANGED response
    /\ UNCHANGED <<argv, args, base, url, data, stdout, retval>>

\* The status check, as changed by a bug: the request is retried once
CheckStatusRetry ==
    /\ pc = "check"
    /\ IF ~Ok(response[1].status)
       THEN IF Len(requested) < 2
            THEN /\ pc' = "request"
                 /\ UNCHANGED <<stderr, exitCode>>
            ELSE /\ stderr' = Append(stderr, HttpErrorMessage(response[1].status))
                 /\ exitCode' = ErrorExit
                 /\ pc' = "exited"
       ELSE /\ pc' = "decode"
            /\ UNCHANGED <<stderr, exitCode>>
    /\ UNCHANGED <<argv, args, base, url, requested, response, data, stdout, retval>>

\* The status check, as changed by a bug: the message is printed, sys.exit is not called
CheckStatusNoExit ==
    /\ pc = "check"
    /\ IF ~Ok(response[1].status)
       THEN stderr' = Append(stderr, HttpErrorMessage(response[1].status))
       ELSE UNCHANGED stderr
    /\ pc' = "decode"
    /\ UNCHANGED <<argv, args, base, url, requested, response, data, stdout,
                   exitCode, retval>>

\* if not response.ok: print the error to sys.stderr; sys.exit(1)
CheckStatus ==
    /\ pc = "check"
    /\ IF ~Ok(response[1].status)
       THEN /\ stderr' = Append(stderr, HttpErrorMessage(response[1].status))
            /\ exitCode' = ErrorExit
            /\ pc' = "exited"
       ELSE /\ pc' = "decode"
            /\ UNCHANGED <<stderr, exitCode>>
    /\ UNCHANGED <<argv, args, base, url, requested, response, data, stdout, retval>>

\* return response.json(): the decoded value, or the decoder's exception
DecodeJson ==
    /\ pc = "decode"
    /\ IF Decodable(response[1].body)
       THEN /\ data' = Decode(response[1].body)
            /\ pc' = "print"
            /\ UNCHANGED <<stderr, exitCode>>
       ELSE /\ Uncaught
            /\ UNCHANGED data
    /\ UNCHANGED <<argv, args, base, url, requested, response, stdout, retval>>

\* print(json.dumps(data, indent=2)); return data
PrintResult ==
    /\ pc = "print"
    /\ stdout' = Append(stdout, PrintLine(Dumps(data)))
    /\ retval' = data
    /\ exitCode' = SuccessExit
    /\ pc' = "returned"
    /\ UNCHANGED <<argv, args, base, url, requested, response, data, stderr>>

Next ==
    \/ ParseStep
    \/ Dispatch
    \/ Get
    \/ CheckStatus
    \/ DecodeJson
    \/ PrintResult

Spec == Init /\ [][Next]_vars

Terminated == pc \in {"exited", "returned"}

----------------------------------------------------------------------------
(* Reading the command line as the user wrote it, apart from the parser *)

TranslationFlags == {"--translation", "-t"}

Given(names) == \E i \in DOMAIN argv : argv[i].t \in names
ValueOf(names) == argv[(CHOOSE i \in DOMAIN argv : argv[i].t \in names) + 1].v
CommandIs(c) == \E i \in DOMAIN argv : argv[i].t = c
NoCommand == \A i \in DOMAIN argv : argv[i].t \notin Commands

\* The free word after the command that is not the value of an option
PositionalOf(c) ==
    LET k == CHOOSE i \in DOMAIN argv : argv[i].t = c
        j == CHOOSE i \in DOMAIN argv : i > k /\ argv[i].t = "val" /\ ~IsFlag(argv[i - 1])
    IN  argv[j].v

ServerOf == IF Given({"--server"}) THEN ValueOf({"--server"}) ELSE DEFAULT_SERVER_URL

NoTrailingSlash(s) == s = <<>> \/ s[Len(s)] # "/"

\* b is s without its trailing slashes: a prefix of s that does not end in
\* "/" and that only "/" characters follow
IsStripped(b, s) ==
    /\ Len(b) <= Len(s)
    /\ b = SubSeq(s, 1, Len(b))
    /\ NoTrailingSlash(b)
    /\ \A i \in (Len(b) + 1)..Len(s) : s[i] = "/"

StrippedServer == CHOOSE b \in {SubSeq(ServerOf, 1, n) : n \in 0..Len(ServerOf)} :
                      IsStripped(b, ServerOf)

EndsWith(u, suffix) ==
    Len(u) >= Len(suffix) /\ SubSeq(u, Len(u) - Len(suffix) + 1, Len(u)) = suffix

StartsWith(u, prefix) ==
    Len(u) >= Len(prefix) /\ SubSeq(u, 1, Len(prefix)) = prefix

Sent == requested # <<>>
SentURL == requested[1]

\* C1: for verse, the requested URL is base + "/" + the reference with every
\* space replaced by "+" and every other character unchanged, in order,
\* followed by nothing or by the translation suffix.
C1_VersePathSegment ==
    (CommandIs("verse") /\ Sent) =>
        LET ref == PositionalOf("verse")
            b == Len(StrippedServer)
            rest == SubSeq(SentURL, b + 2 + Len(ref), Len(SentURL))
        IN  /\ Len(SentURL) >= b + 1 + Len(ref)
            /\ SubSeq(SentURL, 1, b) = StrippedServer
            /\ SentURL[b + 1] = "/"
            /\ \A i \in 1..Len(ref) :
                  SentURL[b + 1 + i] = (IF ref[i] = " " THEN "+" ELSE ref[i])
            /\ \/ rest = <<>>
               \/ \E t \in TranslationIds : rest = Q_TRANSLATION \o t

C1_Witness ==
    /\ CommandIs("verse") /\ Sent
    /\ PositionalOf("verse") = <<" ", "\t">>
    /\ EndsWith(SentURL, <<"/", "+", "\t">>)

\* Length of the verse URL without any translation suffix
VerseBareLen == Len(StrippedServer) + 1 + Len(PositionalOf("verse"))

\* C2 as stated: for verse, the URL ends with exactly "?translation=" + t
\* whenever the option is given with value t, the empty string included,
\* and has no such suffix exactly when the option is absent.
C2_Original ==
    (CommandIs("verse") /\ Sent) =>
        IF Given(TranslationFlags)
        THEN /\ EndsWith(SentURL, Q_TRANSLATION \o ValueOf(TranslationFlags))
             /\ Len(SentURL) = VerseBareLen + Len(Q_TRANSLATION) + Len(ValueOf(TranslationFlags))
        ELSE Len(SentURL) = VerseBareLen

\* C2 amended: for verse, the URL ends with exactly "?translation=" + t
\* whenever the option is given with a non-empty value t, and carries no
\* suffix when the option is absent or given as the empty string; no
\* default translation is substituted.
C2_TranslationSuffix ==
    (CommandIs("verse") /\ Sent) =>
        IF Given(TranslationFlags) /\ ValueOf(TranslationFlags) # <<>>
        THEN /\ EndsWith(SentURL, Q_TRANSLATION \o ValueOf(TranslationFlags))
             /\ Len(SentURL) = VerseBareLen + Len(Q_TRANSLATION) + Len(ValueOf(TranslationFlags))
        ELSE /\ Len(SentURL) = VerseBareLen
             /\ \A t \in TranslationIds \cup {WEB} : ~EndsWith(SentURL, Q_TRANSLATION \o t)

C2_Witness ==
    /\ CommandIs("verse") /\ Sent
    /\ Given(TranslationFlags) /\ ValueOf(TranslationFlags) = <<"k", "j", "v">>
    /\ EndsWith(SentURL, <<"=", "k", "j", "v">>)

\* The translation of books and chapters: the option's value, else "web"
TranslationOrWeb == IF Given(TranslationFlags) THEN ValueOf(TranslationFlags) ELSE WEB

\* C3: translations requests base + "/data"; books base + "/data/" + t;
\* chapters base + "/data/" + t + "/" + book; t is the option's value when
\* given and "web" when not.
C3_DataURLs ==
    Sent =>
        /\ CommandIs("translations") => SentURL = StrippedServer \o DATA
        /\ CommandIs("books") =>
              SentURL = StrippedServer \o DATA \o SLASH \o TranslationOrWeb
        /\ CommandIs("chapters") =>
              SentURL = StrippedServer \o DATA \o SLASH \o TranslationOrWeb
                          \o SLASH \o PositionalOf("chapters")

C3_Witness ==
    /\ CommandIs("chapters") /\ Sent
    /\ ~Given(TranslationFlags)
    /\ EndsWith(SentURL, <<"/", "w", "e", "b", "/", "J", "H", "N">>)

\* C4 as stated: for random, the URL is base + "/data/web/random", then
\* "/" + books when --books is given (whatever its value, the empty string
\* included), or "/" + testament when --testament is given, else nothing.
C4_Original ==
    (CommandIs("random") /\ Sent) =>
        SentURL = StrippedServer \o DATA_WEB_RANDOM
                    \o (IF Given({"--books"}) THEN SLASH \o ValueOf({"--books"})
                        ELSE IF Given({"--testament"}) THEN SLASH \o ValueOf({"--testament"})
                        ELSE <<>>)

\* C4 amended: for random, the URL is base + "/data/web/random", then
\* "/" + books when --books is given with a non-empty value, or
\* "/" + testament when --testament is given, and nothing when neither is
\* given or --books is given as the empty string; never both suffixes.
C4_RandomURL ==
    (CommandIs("random") /\ Sent) =>
        /\ ~(Given({"--books"}) /\ Given({"--testament"}))
        /\ SentURL = StrippedServer \o DATA_WEB_RANDOM
                       \o (IF Given({"--books"}) /\ ValueOf({"--books"}) # <<>>
                           THEN SLASH \o ValueOf({"--books"})
                           ELSE IF Given({"--testament"}) THEN SLASH \o ValueOf({"--testament"})
                           ELSE <<>>)

C4_Witness ==
    /\ CommandIs("random") /\ Sent
    /\ Given({"--books"})
    /\ EndsWith(SentURL, <<"/", "r", "a", "n", "d", "o", "m", "/", "J", "H", "N", ",", "M", "A", "T">>)

BothRandomFilters == CommandIs("random") /\ Given({"--books"}) /\ Given({"--testament"})

\* C5: random with both --books and --testament, in either order, is a
\* usage error: exit code 2, no GET, nothing on standard output.
C5_MutuallyExclusive ==
    BothRandomFilters =>
        /\ requested = <<>>
        /\ stdout = <<>>
        /\ pc \in {"start", "exited"}
        /\ pc = "exited" => exitCode = <<2>> /\ stderr # <<>>

C5_Witness ==
    /\ BothRandomFilters
    /\ ValueOf({"--testament"}) \in TestamentChoices
    /\ ValueOf({"--books"}) # <<>>
    /\ pc = "exited"

\* The status check of request_json has acted on the response
StatusChecked == response # <<>> /\ pc # "check"

\* The run failed on the HTTP status: message, exit code 1, nothing decoded
\* and nothing on standard output
FailedOnStatus ==
    /\ pc = "exited"
    /\ exitCode = <<1>>
    /\ stderr = <<ERROR_HTTP \o Digits(response[1].status) \o <<"\n">>>>
    /\ data = None
    /\ retval = None
    /\ stdout = <<>>

UsageFailure == pc = "exited" /\ requested = <<>> /\ args.command = "none"

\* C7 as stated: a missing or unrecognized command ends the run with exit
\* code 1, a message on the error stream and no network call; exit code 2
\* is for the other usage errors.
C7_Original ==
    /\ NoCommand =>
          /\ requested = <<>>
          /\ pc \in {"start", "exited"}
          /\ pc = "exited" => exitCode = <<1>> /\ stderr # <<>>
    /\ (UsageFailure /\ ~NoCommand) => exitCode = <<2>>

\* C7 amended: a missing or unrecognized command ends the run with exit
\* code 2, like every other usage error, with a message on the error
\* stream and no network call.
C7_UnknownCommand ==
    /\ NoCommand =>
          /\ requested = <<>>
          /\ stdout = <<>>
          /\ pc \in {"start", "exited"}
          /\ pc = "exited" => exitCode = <<2>> /\ stderr # <<>>
    /\ (UsageFailure /\ ~NoCommand) => exitCode = <<2>>

C7_Witness ==
    /\ NoCommand
    /\ argv # <<>> /\ argv[Len(argv)].t = "val"
    /\ pc = "exited"

\* C8: the number of GETs never exceeds one; a finished run issued exactly
\* one when parsing succeeded and none when it failed with a usage error.
C8_SingleGet ==
    /\ Len(requested) <= 1
    /\ Terminated =>
          IF args.command = "none" THEN Len(requested) = 0 ELSE Len(requested) = 1
    /\ (Terminated /\ exitCode = <<2>>) => Len(requested) = 0

C8_Witness ==
    /\ pc = "exited"
    /\ Len(requested) = 1
    /\ response # <<>> /\ response[1].status = 500

\* The HTTP-error message is on the error stream
HttpErrorWritten == \E i \in DOMAIN stderr : StartsWith(stderr[i], ERROR_HTTP)

\* Standard output holds, once, the rendering of the decoded body, which
\* main returns; every failed run leaves it empty
AllOrNothing ==
    /\ Len(stdout) <= 1
    /\ stdout # <<>> =>
          /\ pc = "returned"
          /\ Len(requested) = 1
          /\ response # <<>>
          /\ Decodable(response[1].body)
          /\ stdout[1] = Dumps(Decode(response[1].body)) \o <<"\n">>
          /\ response[1].body = <<"[", "7", ",", "1", "]">> =>
                stdout[1] = <<"[", "\n", " ", " ", "7", ",", "\n", " ", " ", "1", "\n",
                              "]", "\n">>
          /\ retval = Decode(response[1].body)
    /\ pc = "exited" => stdout = <<>>
    /\ pc = "returned" => stdout # <<>>
    /\ ~(stdout # <<>> /\ HttpErrorWritten)

C10_TrailingSlashes ==
    base # None =>
        /\ IsStripped(base, ServerOf)
        /\ NoTrailingSlash(ServerOf) => base = ServerOf
        /\ Rstrip(base) = base
        /\ Sent =>
              /\ StartsWith(SentURL, base \o SLASH)
              /\ Len(base) > 0 => SentURL[Len(base)] # "/"

C10_Witness ==
    /\ Sent
    /\ ServerOf = <<"h", "/", "/">>
    /\ base = <<"h">>
    /\ StartsWith(SentURL, <<"h", "/", "d">>)

====
